---- MODULE Spec2Model ----
(***************************************************************************)
(* Model of zellij-server/src/os_input_output.rs: the pty spawner and the   *)
(* child supervisor (handle_terminal, handle_command_exit), the server's    *)
(* kill / force_kill, and the client channel registry of                    *)
(* ServerOsInputOutput (new_client, remove_client, send_to_client,          *)
(* box_clone).                                                              *)
(***************************************************************************)
EXTENDS Integers, Sequences, FiniteSets, TLC

VARIABLES
    \* ---- the server thread that owns the spawned terminal
    srv,          \* position of the server thread: "init", "idle", "kill_wait", "panicked"
    killCalls,    \* number of kill(pid) calls started
    killAt,       \* state of the supervisor process when the latest kill(pid) was called
    killRes,      \* outcome of the latest kill(pid): "none", "Ok", "Err", "panic"
    fkCalls,      \* number of force_kill(pid) calls made
    fkAt,         \* state of the supervisor process when the latest force_kill(pid) was called
    fkRes,        \* outcome of the latest force_kill(pid)
    srvSent,      \* signals the server has passed to kill(2) for pid, in order
    \* ---- the supervisor process (the new-line continuation of forkpty)
    sup,          \* position of the supervisor process
    supExit,      \* how the supervisor process ended: "none", "status0", "panic", "signaled"
    should_exit,  \* local of handle_command_exit
    attempts,     \* local of handle_command_exit
    pending,      \* signals held by signal_hook's iterator, not yet read by pending()
    checks,       \* try_wait calls since the last signal sent to the command (saturating)
    polls,        \* 10 ms sleeps since the last signal sent to the command (saturating)
    sigLog,       \* signals the supervisor sent to the command, each with its checks and polls
    \* ---- the supervised command
    cmd,          \* "none", "running", "zombie" (exited, not waited for), "reaped"
    cmdIgnoresTerm, \* whether the command ignores SIGTERM
    sigReached,   \* whether a SIGINT / SIGTERM has reached the supervisor process
    exitBeforeSig,\* whether the command exited on its own before any such signal
    itersAfter,   \* 10 ms sleeps done since should_exit became true (saturating)
    \* ---- process ids and the pty's foreground process group
    retPid,       \* the Pid that spawn_terminal returned to the server, 0 before that
    supPid,       \* process id of the supervisor process, 0 while there is none
    cmdPid,       \* process id of the supervised command, 0 while there is none
    cmdPgid,      \* process group of the supervised command, 0 while there is none
    fgPgrp,       \* foreground process group of the new pty, 0 while not set
    \* ---- the client channel registry
    handles,      \* the ServerOsInputOutput values in existence, each a pair of Arc pointers
    arcs,         \* the heap of Arc<Mutex<_>> cells
    delivered,    \* per connection, the messages its sender has sent
    regHist,      \* per client id, the latest new_client / remove_client call
    lastCall,     \* the latest registry call
    ncalls,       \* number of registry calls made
    \* ---- server workers using the registry concurrently
    lock,         \* the worker that holds the Mutex of client_senders, 0 when it is free
    thr,          \* per worker, the registry call it is in and its position in it
    unregDone,    \* the connections whose sender a remove_client that has returned took out
    \* ---- run-target resolution and set_terminal_size_using_fd
    rt,           \* the environment, the terminal action and the results of resolving it
    ws            \* the set_terminal_size_using_fd calls made and the ioctl calls issued

procVars == <<srv, killCalls, killAt, killRes, fkCalls, fkAt, fkRes, srvSent, sup, supExit,
              should_exit, attempts, pending, checks, polls, sigLog, cmd,
              cmdIgnoresTerm, sigReached, exitBeforeSig, itersAfter,
              retPid, supPid, cmdPid, cmdPgid, fgPgrp>>
pidVars == <<retPid, supPid, cmdPid, cmdPgid, fgPgrp>>
regVars == <<handles, arcs, delivered, regHist, lastCall, ncalls>>
concVars == <<lock, thr, unregDone>>
fnVars == <<rt, ws>>
vars == <<procVars, regVars, concVars, fnVars>>

----------------------------------------------------------------------------
(* Bounds *)
MaxKills == 2
MaxForceKills == 2
GapCap == 2
MaxCalls == 4
MaxHandles == 2
MaxPid == 3
IterCap == 6
MaxConcCalls == 3
MaxResolves == 2
MaxSizeCalls == 2

(* Program constants *)
InitAttempts == 3

\* process ids: the server's own, and those the kernel can give to new processes
ServerPid == 1
Pids == 1..MaxPid

SIGINT == "SIGINT"
SIGTERM == "SIGTERM"
SIGKILL == "SIGKILL"

Sat(n) == IF n < GapCap THEN n + 1 ELSE GapCap

----------------------------------------------------------------------------
(* The supervisor process *)

\* positions at which the supervisor process exists and runs
PreHandler == {"forked", "spawned", "pgrp_set"}
InLoop == {"try_wait", "sleep", "decide"}
SupAlive == PreHandler \cup InLoop \cup {"exit"}

\* the process table's view of pid
ProcState == IF sup = "nofork" THEN "none"
             ELSE IF sup \in PreHandler THEN "early"
             ELSE IF sup \in InLoop \cup {"exit"} THEN "loop"
             ELSE sup

\* a signal arrives at the supervisor process (pid): SIGKILL ends it; SIGINT / SIGTERM
\* ends it while no handler is installed (before Signals::new) and is queued for
\* signals.pending() afterwards; a process that already exited is not affected
SignalSup(sig) ==
    IF sup \notin SupAlive
    THEN UNCHANGED <<sup, supExit, pending, sigReached>>
    ELSE IF sig = SIGKILL
    THEN /\ sup' = "zombie"
         /\ supExit' = "signaled"
         /\ UNCHANGED <<pending, sigReached>>
    ELSE /\ sigReached' = TRUE
         /\ IF sup \in PreHandler
            THEN /\ sup' = "zombie"
                 /\ supExit' = "signaled"
                 /\ UNCHANGED pending
            ELSE /\ pending' = pending \cup {sig}
                 /\ UNCHANGED <<sup, supExit>>

\* a signal arrives at the supervised command
SignalCmd(sig) ==
    IF cmd = "running" /\ (sig = SIGKILL \/ ~cmdIgnoresTerm)
    THEN cmd' = "zombie"
    ELSE UNCHANGED cmd

\* Command::new(..).spawn().expect("failed to spawn")
child_spawn ==
    /\ sup = "forked"
    /\ \E ok \in BOOLEAN :
         IF ok
         THEN /\ cmd' = "running"
              /\ sup' = "spawned"
              /\ \E q \in Pids \ {ServerPid, supPid} :
                    /\ cmdPid' = q
                    /\ cmdPgid' = q
              /\ UNCHANGED supExit
         ELSE /\ sup' = "zombie"
              /\ supExit' = "panic"
              /\ UNCHANGED <<cmd, cmdPid, cmdPgid>>
    /\ UNCHANGED <<srv, killCalls, killAt, killRes, fkCalls, fkAt, fkRes, srvSent, should_exit,
                   attempts, pending, checks, polls, sigLog, cmdIgnoresTerm, sigReached,
                   exitBeforeSig>>
    /\ UNCHANGED <<itersAfter, retPid, supPid, fgPgrp>>
    /\ UNCHANGED <<regVars, concVars, fnVars>>

\* mutant of child_tcsetpgrp: the result of tcsetpgrp is discarded
child_tcsetpgrp_ignore ==
    /\ sup = "spawned"
    /\ \E ok \in BOOLEAN :
         /\ sup' = "pgrp_set"
         /\ fgPgrp' = (IF ok THEN cmdPid ELSE fgPgrp)
         /\ UNCHANGED supExit
    /\ UNCHANGED <<srv, killCalls, killAt, killRes, fkCalls, fkAt, fkRes, srvSent, should_exit,
                   attempts, pending, checks, polls, sigLog, cmd, cmdIgnoresTerm,
                   sigReached, exitBeforeSig>>
    /\ UNCHANGED <<itersAfter, retPid, supPid, cmdPid, cmdPgid>>
    /\ UNCHANGED <<regVars, concVars, fnVars>>

\* unistd::tcsetpgrp(0, child pid).expect(..)
child_tcsetpgrp ==
    /\ sup = "spawned"
    /\ \E ok \in BOOLEAN :
         IF ok
         THEN /\ sup' = "pgrp_set"
              /\ fgPgrp' = cmdPid
              /\ UNCHANGED supExit
         ELSE /\ sup' = "zombie"
              /\ supExit' = "panic"
              /\ UNCHANGED fgPgrp
    /\ UNCHANGED <<srv, killCalls, killAt, killRes, fkCalls, fkAt, fkRes, srvSent, should_exit,
                   attempts, pending, checks, polls, sigLog, cmd, cmdIgnoresTerm,
                   sigReached, exitBeforeSig>>
    /\ UNCHANGED <<itersAfter, retPid, supPid, cmdPid, cmdPgid>>
    /\ UNCHANGED <<regVars, concVars, fnVars>>

\* mutant of hce_enter: attempts starts at 4
hce_enter_four_attempts ==
    /\ sup = "pgrp_set"
    /\ should_exit' = FALSE
    /\ attempts' = InitAttempts + 1
    /\ pending' = {}
    /\ sup' = "try_wait"
    /\ UNCHANGED <<srv, killCalls, killAt, killRes, fkCalls, fkAt, fkRes, srvSent, supExit,
                   checks, polls, sigLog, cmd, cmdIgnoresTerm, sigReached, exitBeforeSig>>
    /\ UNCHANGED <<itersAfter, pidVars>>
    /\ UNCHANGED <<regVars, concVars, fnVars>>

\* entry of handle_command_exit: the locals and Signals::new(&[SIGINT, SIGTERM])
hce_enter ==
    /\ sup = "pgrp_set"
    /\ should_exit' = FALSE
    /\ attempts' = InitAttempts
    /\ pending' = {}
    /\ sup' = "try_wait"
    /\ UNCHANGED <<srv, killCalls, killAt, killRes, fkCalls, fkAt, fkRes, srvSent, supExit,
                   checks, polls, sigLog, cmd, cmdIgnoresTerm, sigReached, exitBeforeSig>>
    /\ UNCHANGED <<itersAfter, pidVars>>
    /\ UNCHANGED <<regVars, concVars, fnVars>>

\* mutant of try_wait: Ok(Some(_)) does not break out of the loop
try_wait_no_break ==
    /\ sup = "try_wait"
    /\ checks' = Sat(checks)
    /\ IF cmd = "zombie"
       THEN /\ cmd' = "reaped"
            /\ sup' = "sleep"
       ELSE /\ sup' = "sleep"
            /\ UNCHANGED cmd
    /\ UNCHANGED <<srv, killCalls, killAt, killRes, fkCalls, fkAt, fkRes, srvSent, supExit,
                   should_exit, attempts, pending, polls, sigLog, cmdIgnoresTerm,
                   sigReached, exitBeforeSig>>
    /\ UNCHANGED <<itersAfter, pidVars>>
    /\ UNCHANGED <<regVars, concVars, fnVars>>

\* child.try_wait(): Ok(Some(_)) breaks out of the loop, Ok(None) goes on to the sleep
try_wait ==
    /\ sup = "try_wait"
    /\ checks' = Sat(checks)
    /\ IF cmd = "zombie"
       THEN /\ cmd' = "reaped"
            /\ sup' = "exit"
       ELSE /\ sup' = "sleep"
            /\ UNCHANGED cmd
    /\ UNCHANGED <<srv, killCalls, killAt, killRes, fkCalls, fkAt, fkRes, srvSent, supExit,
                   should_exit, attempts, pending, polls, sigLog, cmdIgnoresTerm,
                   sigReached, exitBeforeSig>>
    /\ UNCHANGED <<itersAfter, pidVars>>
    /\ UNCHANGED <<regVars, concVars, fnVars>>

\* thread::sleep(10 ms)
sleep ==
    /\ sup = "sleep"
    /\ polls' = Sat(polls)
    /\ sup' = "decide"
    /\ UNCHANGED <<srv, killCalls, killAt, killRes, fkCalls, fkAt, fkRes, srvSent, supExit,
                   should_exit, attempts, pending, checks, sigLog, cmd, cmdIgnoresTerm,
                   sigReached, exitBeforeSig>>
    /\ itersAfter' = (IF should_exit THEN (IF itersAfter < IterCap THEN itersAfter + 1 ELSE IterCap) ELSE itersAfter)
    /\ UNCHANGED pidVars
    /\ UNCHANGED <<regVars, concVars, fnVars>>

\* mutant of check_pending: the first SIGTERM is sent in the iteration that reads the signal
check_pending_eager ==
    /\ sup = "decide"
    /\ ~should_exit
    /\ should_exit' = (pending \cap {SIGINT, SIGTERM} # {})
    /\ pending' = {}
    /\ IF should_exit'
       THEN /\ attempts' = attempts - 1
            /\ SignalCmd(SIGTERM)
            /\ sigLog' = Append(sigLog, [sig |-> SIGTERM, checks |-> checks, polls |-> polls])
            /\ checks' = 0
            /\ polls' = 0
       ELSE UNCHANGED <<attempts, cmd, sigLog, checks, polls>>
    /\ sup' = "try_wait"
    /\ UNCHANGED <<srv, killCalls, killAt, killRes, fkCalls, fkAt, fkRes, srvSent, supExit,
                   cmdIgnoresTerm, sigReached, exitBeforeSig>>
    /\ UNCHANGED <<itersAfter, pidVars>>
    /\ UNCHANGED <<regVars, concVars, fnVars>>

\* if !should_exit { for signal in signals.pending() { .. should_exit = true } }
check_pending ==
    /\ sup = "decide"
    /\ ~should_exit
    /\ should_exit' = (pending \cap {SIGINT, SIGTERM} # {})
    /\ pending' = {}
    /\ sup' = "try_wait"
    /\ UNCHANGED <<srv, killCalls, killAt, killRes, fkCalls, fkAt, fkRes, srvSent, supExit,
                   attempts, checks, polls, sigLog, cmd, cmdIgnoresTerm, sigReached,
                   exitBeforeSig>>
    /\ UNCHANGED <<itersAfter, pidVars>>
    /\ UNCHANGED <<regVars, concVars, fnVars>>

\* mutant of send_sigterm: the guard is attempts >= 0 instead of attempts > 0
send_sigterm_off_by_one ==
    /\ sup = "decide"
    /\ should_exit
    /\ attempts >= 0
    /\ attempts' = attempts - 1
    /\ SignalCmd(SIGTERM)
    /\ sigLog' = Append(sigLog, [sig |-> SIGTERM, checks |-> checks, polls |-> polls])
    /\ checks' = 0
    /\ polls' = 0
    /\ sup' = "try_wait"
    /\ UNCHANGED <<srv, killCalls, killAt, killRes, fkCalls, fkAt, fkRes, srvSent, supExit,
                   should_exit, pending, cmdIgnoresTerm, sigReached, exitBeforeSig>>
    /\ UNCHANGED <<itersAfter, pidVars>>
    /\ UNCHANGED <<regVars, concVars, fnVars>>

\* mutant of send_sigterm: a signal that arrived during the escalation starts it again
send_sigterm_rearm ==
    /\ sup = "decide"
    /\ should_exit
    /\ attempts > 0
    /\ attempts' = (IF pending # {} THEN InitAttempts ELSE attempts - 1)
    /\ pending' = {}
    /\ SignalCmd(SIGTERM)
    /\ sigLog' = Append(sigLog, [sig |-> SIGTERM, checks |-> checks, polls |-> polls])
    /\ checks' = 0
    /\ polls' = 0
    /\ sup' = "try_wait"
    /\ UNCHANGED <<srv, killCalls, killAt, killRes, fkCalls, fkAt, fkRes, srvSent, supExit,
                   should_exit, cmdIgnoresTerm, sigReached, exitBeforeSig>>
    /\ UNCHANGED <<itersAfter, pidVars>>
    /\ UNCHANGED <<regVars, concVars, fnVars>>

\* else if attempts > 0 { attempts -= 1; kill(child, SIGTERM).unwrap(); continue }
send_sigterm ==
    /\ sup = "decide"
    /\ should_exit
    /\ attempts > 0
    /\ attempts' = attempts - 1
    /\ SignalCmd(SIGTERM)
    /\ sigLog' = Append(sigLog, [sig |-> SIGTERM, checks |-> checks, polls |-> polls])
    /\ checks' = 0
    /\ polls' = 0
    /\ sup' = "try_wait"
    /\ UNCHANGED <<srv, killCalls, killAt, killRes, fkCalls, fkAt, fkRes, srvSent, supExit,
                   should_exit, pending, cmdIgnoresTerm, sigReached, exitBeforeSig>>
    /\ UNCHANGED <<itersAfter, pidVars>>
    /\ UNCHANGED <<regVars, concVars, fnVars>>

\* else { let _ = child.kill(); break }
send_sigkill ==
    /\ sup = "decide"
    /\ should_exit
    /\ ~(attempts > 0)
    /\ SignalCmd(SIGKILL)
    /\ sigLog' = Append(sigLog, [sig |-> SIGKILL, checks |-> checks, polls |-> polls])
    /\ checks' = 0
    /\ polls' = 0
    /\ sup' = "exit"
    /\ UNCHANGED <<srv, killCalls, killAt, killRes, fkCalls, fkAt, fkRes, srvSent, supExit,
                   should_exit, attempts, pending, cmdIgnoresTerm, sigReached,
                   exitBeforeSig>>
    /\ UNCHANGED <<itersAfter, pidVars>>
    /\ UNCHANGED <<regVars, concVars, fnVars>>

\* ::std::process::exit(0) after handle_command_exit returned
process_exit ==
    /\ sup = "exit"
    /\ sup' = "zombie"
    /\ supExit' = "status0"
    /\ UNCHANGED <<srv, killCalls, killAt, killRes, fkCalls, fkAt, fkRes, srvSent, should_exit,
                   attempts, pending, checks, polls, sigLog, cmd, cmdIgnoresTerm,
                   sigReached, exitBeforeSig>>
    /\ UNCHANGED <<itersAfter, pidVars>>
    /\ UNCHANGED <<regVars, concVars, fnVars>>

----------------------------------------------------------------------------
(* The environment of the supervisor *)

\* the supervised command exits on its own
CmdExit ==
    /\ cmd = "running"
    /\ cmd' = "zombie"
    /\ exitBeforeSig' = ~sigReached
    /\ UNCHANGED <<srv, killCalls, killAt, killRes, fkCalls, fkAt, fkRes, srvSent, sup, supExit,
                   should_exit, attempts, pending, checks, polls, sigLog, cmdIgnoresTerm,
                   sigReached>>
    /\ UNCHANGED <<itersAfter, pidVars>>
    /\ UNCHANGED <<regVars, concVars, fnVars>>

\* some other process sends SIGINT or SIGTERM to the supervisor process
ExternalSignal ==
    /\ sup \in SupAlive
    /\ \E sig \in {SIGINT, SIGTERM} : SignalSup(sig)
    /\ UNCHANGED <<srv, killCalls, killAt, killRes, fkCalls, fkAt, fkRes, srvSent, should_exit,
                   attempts, checks, polls, sigLog, cmd, cmdIgnoresTerm, exitBeforeSig>>
    /\ UNCHANGED <<itersAfter, pidVars>>
    /\ UNCHANGED <<regVars, concVars, fnVars>>

----------------------------------------------------------------------------
(* The server: spawn_terminal, kill, force_kill *)

\* mutant of spawn_terminal: the parent continuation returns its own process id
spawn_terminal_own_pid ==
    /\ srv = "init"
    /\ \E ok \in BOOLEAN :
         IF ok
         THEN /\ sup' = "forked"
              /\ srv' = "idle"
              /\ \E p \in Pids \ {ServerPid} :
                    /\ supPid' = p
                    /\ retPid' = ServerPid
         ELSE /\ srv' = "panicked"
              /\ UNCHANGED <<sup, supPid, retPid>>
    /\ UNCHANGED <<killCalls, killAt, killRes, fkCalls, fkAt, fkRes, srvSent, supExit,
                   should_exit, attempts, pending, checks, polls, sigLog, cmd,
                   cmdIgnoresTerm, sigReached, exitBeforeSig>>
    /\ UNCHANGED <<itersAfter, cmdPid, cmdPgid, fgPgrp>>
    /\ UNCHANGED <<regVars, concVars, fnVars>>

\* spawn_terminal -> handle_terminal: forkpty gives the new process a process id not in
\* use; the parent continuation returns (master, child) at once, a failed forkpty panics
spawn_terminal ==
    /\ srv = "init"
    /\ \E ok \in BOOLEAN :
         IF ok
         THEN /\ sup' = "forked"
              /\ srv' = "idle"
              /\ \E p \in Pids \ {ServerPid} :
                    /\ supPid' = p
                    /\ retPid' = p
         ELSE /\ srv' = "panicked"
              /\ UNCHANGED <<sup, supPid, retPid>>
    /\ UNCHANGED <<killCalls, killAt, killRes, fkCalls, fkAt, fkRes, srvSent, supExit,
                   should_exit, attempts, pending, checks, polls, sigLog, cmd,
                   cmdIgnoresTerm, sigReached, exitBeforeSig>>
    /\ UNCHANGED <<itersAfter, cmdPid, cmdPgid, fgPgrp>>
    /\ UNCHANGED <<regVars, concVars, fnVars>>

\* mutant of kill_signal: kill returns Ok(()) right after the signal, without waitpid
kill_signal_nowait ==
    /\ srv = "idle"
    /\ sup # "nofork"
    /\ killCalls < MaxKills
    /\ killCalls' = killCalls + 1
    /\ killAt' = ProcState
    /\ srvSent' = Append(srvSent, SIGTERM)
    /\ IF sup = "reaped"
       THEN /\ srv' = "panicked"
            /\ killRes' = "panic"
            /\ UNCHANGED <<sup, supExit, pending, sigReached>>
       ELSE /\ SignalSup(SIGTERM)
            /\ srv' = "idle"
            /\ killRes' = "Ok"
    /\ UNCHANGED <<fkCalls, fkAt, fkRes, should_exit, attempts, checks, polls, sigLog, cmd,
                   cmdIgnoresTerm, exitBeforeSig>>
    /\ UNCHANGED <<itersAfter, pidVars>>
    /\ UNCHANGED <<regVars, concVars, fnVars>>

\* mutant of kill_signal: the error of kill(2) is returned with ? instead of unwrapped
kill_signal_propagate ==
    /\ srv = "idle"
    /\ sup # "nofork"
    /\ killCalls < MaxKills
    /\ killCalls' = killCalls + 1
    /\ killAt' = ProcState
    /\ srvSent' = Append(srvSent, SIGTERM)
    /\ IF sup = "reaped"
       THEN /\ srv' = "idle"
            /\ killRes' = "Err"
            /\ UNCHANGED <<sup, supExit, pending, sigReached>>
       ELSE /\ SignalSup(SIGTERM)
            /\ srv' = "kill_wait"
            /\ killRes' = "none"
    /\ UNCHANGED <<fkCalls, fkAt, fkRes, should_exit, attempts, checks, polls, sigLog, cmd,
                   cmdIgnoresTerm, exitBeforeSig>>
    /\ UNCHANGED <<itersAfter, pidVars>>
    /\ UNCHANGED <<regVars, concVars, fnVars>>

\* kill, first statement: kill(pid, Some(Signal::SIGTERM)).unwrap()
\* kill(2) fails with ESRCH when pid is no process any more (it was waited for)
kill_signal ==
    /\ srv = "idle"
    /\ sup # "nofork"
    /\ killCalls < MaxKills
    /\ killCalls' = killCalls + 1
    /\ killAt' = ProcState
    /\ srvSent' = Append(srvSent, SIGTERM)
    /\ IF sup = "reaped"
       THEN /\ srv' = "panicked"
            /\ killRes' = "panic"
            /\ UNCHANGED <<sup, supExit, pending, sigReached>>
       ELSE /\ SignalSup(SIGTERM)
            /\ srv' = "kill_wait"
            /\ killRes' = "none"
    /\ UNCHANGED <<fkCalls, fkAt, fkRes, should_exit, attempts, checks, polls, sigLog, cmd,
                   cmdIgnoresTerm, exitBeforeSig>>
    /\ UNCHANGED <<itersAfter, pidVars>>
    /\ UNCHANGED <<regVars, concVars, fnVars>>

\* kill, second statement: waitpid(pid, None).unwrap(); Ok(())
\* waitpid blocks until pid has exited, then removes it from the process table
kill_waitpid ==
    /\ srv = "kill_wait"
    /\ sup = "zombie"
    /\ sup' = "reaped"
    /\ srv' = "idle"
    /\ killRes' = "Ok"
    /\ UNCHANGED <<killCalls, killAt, fkCalls, fkAt, fkRes, srvSent, supExit, should_exit,
                   attempts, pending, checks, polls, sigLog, cmd, cmdIgnoresTerm,
                   sigReached, exitBeforeSig>>
    /\ UNCHANGED <<itersAfter, pidVars>>
    /\ UNCHANGED <<regVars, concVars, fnVars>>

\* mutant of force_kill: the result of kill(2) is unwrapped instead of dropped
force_kill_unwrap ==
    /\ srv = "idle"
    /\ sup # "nofork"
    /\ fkCalls < MaxForceKills
    /\ fkCalls' = fkCalls + 1
    /\ fkAt' = ProcState
    /\ srvSent' = Append(srvSent, SIGKILL)
    /\ SignalSup(SIGKILL)
    /\ IF sup = "reaped"
       THEN /\ fkRes' = "panic"
            /\ srv' = "panicked"
       ELSE /\ fkRes' = "Ok"
            /\ UNCHANGED srv
    /\ UNCHANGED <<killCalls, killAt, killRes, should_exit, attempts, checks, polls,
                   sigLog, cmd, cmdIgnoresTerm, exitBeforeSig>>
    /\ UNCHANGED <<itersAfter, pidVars>>
    /\ UNCHANGED <<regVars, concVars, fnVars>>

\* force_kill: let _ = kill(pid, Some(Signal::SIGKILL)); Ok(())
force_kill ==
    /\ srv = "idle"
    /\ sup # "nofork"
    /\ fkCalls < MaxForceKills
    /\ fkCalls' = fkCalls + 1
    /\ fkAt' = ProcState
    /\ srvSent' = Append(srvSent, SIGKILL)
    /\ SignalSup(SIGKILL)
    /\ fkRes' = "Ok"
    /\ UNCHANGED <<srv, killCalls, killAt, killRes, should_exit, attempts, checks, polls,
                   sigLog, cmd, cmdIgnoresTerm, exitBeforeSig>>
    /\ UNCHANGED <<itersAfter, pidVars>>
    /\ UNCHANGED <<regVars, concVars, fnVars>>

----------------------------------------------------------------------------
(* The client channel registry *)

Clients == {1, 2}
\* a LocalSocketStream is moved into new_client, so every call brings a new connection:
\* the connection of the n-th registry call is n
Streams == 1..MaxCalls
NextStream == ncalls + 1
Msgs == {"m1", "m2"}

\* get_server_os_input: one Arc for the termios, one for the empty HashMap
InitArcs == <<"termios", {}>>
InitHandles == <<[orig_termios |-> 1, client_senders |-> 2]>>

\* the HashMap<ClientId, IpcSenderWithContext> a handle reaches through its Arc, as the
\* set of its (key, value) entries
Registry(h) == arcs[handles[h].client_senders]

\* the termios a handle reaches through its Arc
OrigTermios(h) == arcs[handles[h].orig_termios]

\* HashMap::insert(k, v): an entry under k is replaced
HashMapInsert(map, k, v) == {e \in map : e.id # k} \cup {[id |-> k, sender |-> v]}

\* HashMap::remove(k)
HashMapRemove(map, k) == {e \in map : e.id # k}

\* IpcReceiverWithContext::new(stream).get_sender(): the sender over the same stream
GetSender(stream) == [stream |-> stream]

\* IpcSenderWithContext::send(msg): the message goes out on the sender's stream
SenderSend(out, sender, msg) == [out EXCEPT ![sender.stream] = Append(@, msg)]

\* mutant of box_clone: the two Mutex contents are copied into new Arcs
box_clone_deep(h) ==
    /\ Len(handles) < MaxHandles
    /\ arcs' = arcs \o <<OrigTermios(h), Registry(h)>>
    /\ handles' = Append(handles, [orig_termios |-> Len(arcs) + 1,
                                   client_senders |-> Len(arcs) + 2])
    /\ UNCHANGED <<delivered, regHist, lastCall, ncalls>>
    /\ UNCHANGED <<procVars, concVars, fnVars>>

\* box_clone / Box<dyn ServerOsApi>::clone: #[derive(Clone)] clones the two Arc pointers
box_clone(h) ==
    /\ Len(handles) < MaxHandles
    /\ handles' = Append(handles, handles[h])
    /\ UNCHANGED <<arcs, delivered, regHist, lastCall, ncalls>>
    /\ UNCHANGED <<procVars, concVars, fnVars>>

\* mutant of new_client: the sender is added without replacing the entry under client_id
new_client_keep_old(h, client_id, stream) ==
    /\ ncalls < MaxCalls
    /\ ncalls' = ncalls + 1
    /\ arcs' = [arcs EXCEPT ![handles[h].client_senders] =
                   @ \cup {[id |-> client_id, sender |-> GetSender(stream)]}]
    /\ regHist' = [regHist EXCEPT ![client_id] = [op |-> "register", handle |-> h, stream |-> stream]]
    /\ lastCall' = [op |-> "new_client", handle |-> h, client |-> client_id, arg |-> "none"]
    /\ UNCHANGED <<handles, delivered>>
    /\ UNCHANGED <<procVars, concVars, fnVars>>

\* new_client: the sender of the receiver built over stream is inserted under client_id
new_client(h, client_id, stream) ==
    /\ ncalls < MaxCalls
    /\ ncalls' = ncalls + 1
    /\ arcs' = [arcs EXCEPT ![handles[h].client_senders] =
                   HashMapInsert(@, client_id, GetSender(stream))]
    /\ regHist' = [regHist EXCEPT ![client_id] = [op |-> "register", handle |-> h, stream |-> stream]]
    /\ lastCall' = [op |-> "new_client", handle |-> h, client |-> client_id, arg |-> "none"]
    /\ UNCHANGED <<handles, delivered>>
    /\ UNCHANGED <<procVars, concVars, fnVars>>

\* mutant of remove_client: the whole map is cleared
remove_client_clear(h, client_id) ==
    /\ ncalls < MaxCalls
    /\ ncalls' = ncalls + 1
    /\ arcs' = [arcs EXCEPT ![handles[h].client_senders] =
                   IF \E e \in @ : e.id = client_id THEN {} ELSE @]
    /\ regHist' = [regHist EXCEPT ![client_id] = [op |-> "unregister", handle |-> h, stream |-> 0]]
    /\ lastCall' = [op |-> "remove_client", handle |-> h, client |-> client_id,
                    arg |-> IF \E e \in Registry(h) : e.id = client_id
                            THEN "removed" ELSE "absent"]
    /\ UNCHANGED <<handles, delivered>>
    /\ UNCHANGED <<procVars, concVars, fnVars>>

\* remove_client: if client_senders.contains_key(&client_id) { remove(&client_id) }
remove_client(h, client_id) ==
    /\ ncalls < MaxCalls
    /\ ncalls' = ncalls + 1
    /\ arcs' = [arcs EXCEPT ![handles[h].client_senders] =
                   IF \E e \in @ : e.id = client_id
                   THEN HashMapRemove(@, client_id)
                   ELSE @]
    /\ regHist' = [regHist EXCEPT ![client_id] = [op |-> "unregister", handle |-> h, stream |-> 0]]
    /\ lastCall' = [op |-> "remove_client", handle |-> h, client |-> client_id,
                    arg |-> IF \E e \in Registry(h) : e.id = client_id
                            THEN "removed" ELSE "absent"]
    /\ UNCHANGED <<handles, delivered>>
    /\ UNCHANGED <<procVars, concVars, fnVars>>

\* mutant of send_to_client: the sender is taken out of the map (remove instead of get_mut)
send_to_client_take(h, client_id, msg) ==
    /\ ncalls < MaxCalls
    /\ ncalls' = ncalls + 1
    /\ IF \E e \in Registry(h) : e.id = client_id
       THEN \E e \in Registry(h) :
               /\ e.id = client_id
               /\ delivered' = SenderSend(delivered, e.sender, msg)
       ELSE UNCHANGED delivered
    /\ arcs' = [arcs EXCEPT ![handles[h].client_senders] = HashMapRemove(@, client_id)]
    /\ lastCall' = [op |-> "send_to_client", handle |-> h, client |-> client_id,
                    arg |-> msg]
    /\ UNCHANGED <<handles, regHist>>
    /\ UNCHANGED <<procVars, concVars, fnVars>>

\* mutant of send_to_client: the message is sent on every sender of the map
send_to_client_broadcast(h, client_id, msg) ==
    /\ ncalls < MaxCalls
    /\ ncalls' = ncalls + 1
    /\ IF \E e \in Registry(h) : e.id = client_id
       THEN delivered' = [s \in Streams |->
                            IF \E e \in Registry(h) : e.sender.stream = s
                            THEN Append(delivered[s], msg)
                            ELSE delivered[s]]
       ELSE UNCHANGED delivered
    /\ lastCall' = [op |-> "send_to_client", handle |-> h, client |-> client_id,
                    arg |-> msg]
    /\ UNCHANGED <<handles, arcs, regHist>>
    /\ UNCHANGED <<procVars, concVars, fnVars>>

\* send_to_client: if let Some(sender) = ..get_mut(&client_id) { sender.send(msg) }
send_to_client(h, client_id, msg) ==
    /\ ncalls < MaxCalls
    /\ ncalls' = ncalls + 1
    /\ IF \E e \in Registry(h) : e.id = client_id
       THEN \E e \in Registry(h) :
               /\ e.id = client_id
               /\ delivered' = SenderSend(delivered, e.sender, msg)
       ELSE UNCHANGED delivered
    /\ lastCall' = [op |-> "send_to_client", handle |-> h, client |-> client_id,
                    arg |-> msg]
    /\ UNCHANGED <<handles, arcs, regHist>>
    /\ UNCHANGED <<procVars, concVars, fnVars>>

----------------------------------------------------------------------------
(* Server workers that call the registry concurrently *)

Workers == {1, 2}
IdleWorker == [op |-> "idle", pc |-> "idle", handle |-> 0, client |-> 0, msg |-> "none",
               found |-> {}]

\* the positions at which a worker holds the MutexGuard of client_senders
HoldsGuard == {"send", "remove", "return"}

\* a worker calls send_to_client through its handle and reaches client_senders.lock()
send_to_client_call(w, h, client_id, msg) ==
    /\ thr[w].pc = "idle"
    /\ ncalls < MaxConcCalls
    /\ ncalls' = ncalls + 1
    /\ thr' = [thr EXCEPT ![w] = [op |-> "send_to_client", pc |-> "lock", handle |-> h,
                                  client |-> client_id, msg |-> msg, found |-> {}]]
    /\ UNCHANGED <<lock, unregDone, handles, arcs, delivered, regHist, lastCall>>
    /\ UNCHANGED <<procVars, fnVars>>

\* mutant of send_to_client_get: the sender is copied out and the guard is dropped
\* before the send
send_to_client_get_clone(w) ==
    /\ thr[w].op = "send_to_client"
    /\ thr[w].pc = "lock"
    /\ lock = 0
    /\ lock' = 0
    /\ thr' = [thr EXCEPT ![w].pc = "send",
                          ![w].found = {e.sender : e \in {x \in Registry(thr[w].handle) :
                                                             x.id = thr[w].client}}]
    /\ UNCHANGED <<unregDone, handles, arcs, delivered, regHist, lastCall, ncalls>>
    /\ UNCHANGED <<procVars, fnVars>>

\* self.client_senders.lock().unwrap().get_mut(&client_id): the guard is taken and lives
\* to the end of the if let
send_to_client_get(w) ==
    /\ thr[w].op = "send_to_client"
    /\ thr[w].pc = "lock"
    /\ lock = 0
    /\ lock' = w
    /\ thr' = [thr EXCEPT ![w].pc = "send",
                          ![w].found = {e.sender : e \in {x \in Registry(thr[w].handle) :
                                                             x.id = thr[w].client}}]
    /\ UNCHANGED <<unregDone, handles, arcs, delivered, regHist, lastCall, ncalls>>
    /\ UNCHANGED <<procVars, fnVars>>

\* Some(sender) => sender.send(msg); then the if let ends, the guard (if this worker
\* holds it) is dropped and the call returns
send_to_client_send(w) ==
    /\ thr[w].op = "send_to_client"
    /\ thr[w].pc = "send"
    /\ IF thr[w].found # {}
       THEN \E sender \in thr[w].found : delivered' = SenderSend(delivered, sender, thr[w].msg)
       ELSE UNCHANGED delivered
    /\ lock' = (IF lock = w THEN 0 ELSE lock)
    /\ thr' = [thr EXCEPT ![w] = IdleWorker]
    /\ UNCHANGED <<unregDone, handles, arcs, regHist, lastCall, ncalls>>
    /\ UNCHANGED <<procVars, fnVars>>

\* a worker calls remove_client and reaches client_senders.lock()
remove_client_call(w, h, client_id) ==
    /\ thr[w].pc = "idle"
    /\ ncalls < MaxConcCalls
    /\ ncalls' = ncalls + 1
    /\ thr' = [thr EXCEPT ![w] = [op |-> "remove_client", pc |-> "lock", handle |-> h,
                                  client |-> client_id, msg |-> "none", found |-> {}]]
    /\ UNCHANGED <<lock, unregDone, handles, arcs, delivered, regHist, lastCall>>
    /\ UNCHANGED <<procVars, fnVars>>

\* let mut client_senders = self.client_senders.lock().unwrap()
remove_client_lock(w) ==
    /\ thr[w].op = "remove_client"
    /\ thr[w].pc = "lock"
    /\ lock = 0
    /\ lock' = w
    /\ thr' = [thr EXCEPT ![w].pc = "remove"]
    /\ UNCHANGED <<unregDone, handles, arcs, delivered, regHist, lastCall, ncalls>>
    /\ UNCHANGED <<procVars, fnVars>>

\* if client_senders.contains_key(&client_id) { client_senders.remove(&client_id); }
remove_client_remove(w) ==
    /\ thr[w].op = "remove_client"
    /\ thr[w].pc = "remove"
    /\ arcs' = [arcs EXCEPT ![handles[thr[w].handle].client_senders] =
                   IF \E e \in @ : e.id = thr[w].client
                   THEN HashMapRemove(@, thr[w].client)
                   ELSE @]
    /\ thr' = [thr EXCEPT ![w].pc = "return",
                          ![w].found = {e.sender : e \in {x \in Registry(thr[w].handle) :
                                                             x.id = thr[w].client}}]
    /\ UNCHANGED <<lock, unregDone, handles, delivered, regHist, lastCall, ncalls>>
    /\ UNCHANGED <<procVars, fnVars>>

\* the end of remove_client: the guard is dropped and the call returns
remove_client_return(w) ==
    /\ thr[w].op = "remove_client"
    /\ thr[w].pc = "return"
    /\ lock' = (IF lock = w THEN 0 ELSE lock)
    /\ unregDone' = unregDone \cup {sender.stream : sender \in thr[w].found}
    /\ thr' = [thr EXCEPT ![w] = IdleWorker]
    /\ UNCHANGED <<handles, arcs, delivered, regHist, lastCall, ncalls>>
    /\ UNCHANGED <<procVars, fnVars>>

\* a worker calls new_client: the receiver and its sender are built over the stream
new_client_call(w, h, client_id, stream) ==
    /\ thr[w].pc = "idle"
    /\ ncalls < MaxConcCalls
    /\ ncalls' = ncalls + 1
    /\ thr' = [thr EXCEPT ![w] = [op |-> "new_client", pc |-> "lock", handle |-> h,
                                  client |-> client_id, msg |-> "none",
                                  found |-> {GetSender(stream)}]]
    /\ UNCHANGED <<lock, unregDone, handles, arcs, delivered, regHist, lastCall>>
    /\ UNCHANGED <<procVars, fnVars>>

\* self.client_senders.lock().unwrap().insert(client_id, sender): the guard is a
\* temporary of this one statement; then the receiver is returned
new_client_insert(w) ==
    /\ thr[w].op = "new_client"
    /\ thr[w].pc = "lock"
    /\ lock = 0
    /\ \E sender \in thr[w].found :
          arcs' = [arcs EXCEPT ![handles[thr[w].handle].client_senders] =
                      HashMapInsert(@, thr[w].client, sender)]
    /\ thr' = [thr EXCEPT ![w] = IdleWorker]
    /\ UNCHANGED <<lock, unregDone, handles, delivered, regHist, lastCall, ncalls>>
    /\ UNCHANGED <<procVars, fnVars>>

----------------------------------------------------------------------------
(* Run-target resolution: spawn_terminal's match on the terminal action *)

EnvNames == {"EDITOR", "VISUAL", "SHELL"}
Unset == "<unset>"
\* a value (of a variable, of a path) that is not valid Unicode
NotUnicode == "<not valid Unicode>"
EnvValues == {Unset, NotUnicode, "/usr/bin/vim", "/bin/sh"}
Files == {"notes.txt", NotUnicode}
Commands == {[command |-> "/usr/bin/htop", args |-> <<>>],
             [command |-> "/bin/ls", args |-> <<"-l", "/tmp">>]}
TerminalActions ==
    {[kind |-> "OpenFile", file |-> f] : f \in Files}
    \cup {[kind |-> "RunCommand", cmd |-> c] : c \in Commands}
    \cup {[kind |-> "None"]}

\* std::env::var(name): Err when the variable is not present and also when its value is
\* not valid Unicode
EnvVar(env, name) ==
    IF env[name] \in {Unset, NotUnicode}
    THEN [ok |-> FALSE, val |-> ""]
    ELSE [ok |-> TRUE, val |-> env[name]]

Fatal(msg) == [kind |-> "panic", msg |-> msg]
RunCommand(command, args) == [kind |-> "RunCommand", command |-> command, args |-> args]

\* mutant of ResolveRunTarget: VISUAL is preferred to EDITOR
ResolveRunTargetVisualFirst(env, action) ==
    IF action.kind = "OpenFile"
    THEN IF ~EnvVar(env, "EDITOR").ok /\ ~EnvVar(env, "VISUAL").ok
         THEN Fatal("Can't edit files if an editor is not defined")
         ELSE IF action.file = NotUnicode
         THEN Fatal("Not valid Utf8 Encoding")
         ELSE RunCommand(IF EnvVar(env, "VISUAL").ok
                         THEN EnvVar(env, "VISUAL").val
                         ELSE EnvVar(env, "EDITOR").val,
                         <<action.file>>)
    ELSE IF action.kind = "RunCommand"
    THEN RunCommand(action.cmd.command, action.cmd.args)
    ELSE IF EnvVar(env, "SHELL").ok
         THEN RunCommand(EnvVar(env, "SHELL").val, <<>>)
         ELSE Fatal("Could not find the SHELL variable")

\* the match of spawn_terminal: the RunCommand handed to handle_terminal, or the panic
ResolveRunTarget(env, action) ==
    IF action.kind = "OpenFile"
    THEN IF ~EnvVar(env, "EDITOR").ok /\ ~EnvVar(env, "VISUAL").ok
         THEN Fatal("Can't edit files if an editor is not defined")
         ELSE IF action.file = NotUnicode
         THEN Fatal("Not valid Utf8 Encoding")
         ELSE RunCommand(IF EnvVar(env, "EDITOR").ok
                         THEN EnvVar(env, "EDITOR").val
                         ELSE EnvVar(env, "VISUAL").val,
                         <<action.file>>)
    ELSE IF action.kind = "RunCommand"
    THEN RunCommand(action.cmd.command, action.cmd.args)
    ELSE IF EnvVar(env, "SHELL").ok
         THEN RunCommand(EnvVar(env, "SHELL").val, <<>>)
         ELSE Fatal("Could not find the SHELL variable")

\* one call of spawn_terminal up to handle_terminal, in the environment and for the
\* action of this run; a panic ends the calling thread
resolve_target ==
    /\ Len(rt.results) < MaxResolves
    /\ \A i \in 1..Len(rt.results) : rt.results[i].kind # "panic"
    /\ rt' = [rt EXCEPT !.results = Append(@, ResolveRunTarget(rt.env, rt.action))]
    /\ UNCHANGED <<procVars, regVars, concVars, ws>>

----------------------------------------------------------------------------
(* set_terminal_size_using_fd *)

Fds == {3, 4}
\* u16 values: the smallest, the largest and two in between
U16Max == 65535
U16Samples == {0, 1, 80, U16Max}

\* the free function set_terminal_size_using_fd: ioctl(fd, TIOCSWINSZ, &winsize)
WinsizeIoctl(fd, columns, rows) ==
    [fd |-> fd, request |-> "TIOCSWINSZ",
     winsize |-> [ws_col |-> columns, ws_row |-> rows, ws_xpixel |-> 0, ws_ypixel |-> 0]]

\* mutant of set_terminal_size_using_fd: the guard is cols > 0 || rows > 0
set_terminal_size_either(fd, cols, rows) ==
    /\ Len(ws.calls) < MaxSizeCalls
    /\ ws' = [calls |-> Append(ws.calls, [fd |-> fd, cols |-> cols, rows |-> rows]),
              ioctls |-> IF cols > 0 \/ rows > 0
                         THEN Append(ws.ioctls, WinsizeIoctl(fd, cols, rows))
                         ELSE ws.ioctls]
    /\ UNCHANGED <<procVars, regVars, concVars, rt>>

\* ServerOsInputOutput::set_terminal_size_using_fd: if cols > 0 && rows > 0 { .. }
set_terminal_size_using_fd(fd, cols, rows) ==
    /\ Len(ws.calls) < MaxSizeCalls
    /\ ws' = [calls |-> Append(ws.calls, [fd |-> fd, cols |-> cols, rows |-> rows]),
              ioctls |-> IF cols > 0 /\ rows > 0
                         THEN Append(ws.ioctls, WinsizeIoctl(fd, cols, rows))
                         ELSE ws.ioctls]
    /\ UNCHANGED <<procVars, regVars, concVars, rt>>

----------------------------------------------------------------------------
InitProc ==
    /\ srv = "init"
    /\ killCalls = 0
    /\ killAt = "none"
    /\ killRes = "none"
    /\ fkCalls = 0
    /\ fkAt = "none"
    /\ fkRes = "none"
    /\ srvSent = <<>>
    /\ sup = "nofork"
    /\ supExit = "none"
    /\ should_exit = FALSE
    /\ attempts = InitAttempts
    /\ pending = {}
    /\ checks = 0
    /\ polls = 0
    /\ sigLog = <<>>
    /\ cmd = "none"
    /\ cmdIgnoresTerm \in BOOLEAN
    /\ sigReached = FALSE
    /\ exitBeforeSig = FALSE
    /\ itersAfter = 0
    /\ retPid = 0
    /\ supPid = 0
    /\ cmdPid = 0
    /\ cmdPgid = 0
    /\ fgPgrp = 0

InitReg ==
    /\ handles = InitHandles
    /\ arcs = InitArcs
    /\ delivered = [s \in Streams |-> <<>>]
    /\ regHist = [c \in Clients |-> [op |-> "none", handle |-> 0, stream |-> 0]]
    /\ lastCall = [op |-> "none", handle |-> 0, client |-> 0, arg |-> "none"]
    /\ ncalls = 0

\* no worker is in a registry call
InitConc ==
    /\ lock = 0
    /\ thr = [t \in Workers |-> IdleWorker]
    /\ unregDone = {}

\* nothing resolved, no terminal resized
InitFn ==
    /\ rt = [env |-> [v \in EnvNames |-> Unset], action |-> [kind |-> "None"],
             results |-> <<>>]
    /\ ws = [calls |-> <<>>, ioctls |-> <<>>]

Init == InitProc /\ InitReg /\ InitConc /\ InitFn

Next ==
    \/ spawn_terminal
    \/ child_spawn
    \/ child_tcsetpgrp
    \/ hce_enter
    \/ try_wait
    \/ sleep
    \/ check_pending
    \/ send_sigterm
    \/ send_sigkill
    \/ process_exit
    \/ CmdExit
    \/ ExternalSignal
    \/ kill_signal
    \/ kill_waitpid
    \/ force_kill

Spec == Init /\ [][Next]_vars

NextRegistry ==
    \/ \E h \in DOMAIN handles : box_clone(h)
    \/ \E h \in DOMAIN handles, c \in Clients : new_client(h, c, NextStream)
    \/ \E h \in DOMAIN handles, c \in Clients : remove_client(h, c)
    \/ \E h \in DOMAIN handles, c \in Clients, m \in Msgs : send_to_client(h, c, m)

SpecRegistry == Init /\ [][NextRegistry]_vars

\* the steps a worker takes inside a registry call
WorkerStep(w) ==
    \/ send_to_client_get(w)
    \/ send_to_client_send(w)
    \/ remove_client_lock(w)
    \/ remove_client_remove(w)
    \/ remove_client_return(w)
    \/ new_client_insert(w)

NextConc ==
    \/ \E h \in DOMAIN handles : box_clone(h)
    \/ \E w \in Workers, h \in DOMAIN handles, c \in Clients, m \in Msgs :
          send_to_client_call(w, h, c, m)
    \/ \E w \in Workers, h \in DOMAIN handles, c \in Clients : remove_client_call(w, h, c)
    \/ \E w \in Workers, h \in DOMAIN handles, c \in Clients :
          new_client_call(w, h, c, NextStream)
    \/ \E w \in Workers : send_to_client_get(w)
    \/ \E w \in Workers : send_to_client_send(w)
    \/ \E w \in Workers : remove_client_lock(w)
    \/ \E w \in Workers : remove_client_remove(w)
    \/ \E w \in Workers : remove_client_return(w)
    \/ \E w \in Workers : new_client_insert(w)

SpecConc == Init /\ [][NextConc]_vars

\* every worker thread is scheduled: a step that needs no lock is not postponed for ever,
\* and a thread blocked in lock() gets the mutex if it is free again and again
FairnessConc ==
    \A w \in Workers :
        /\ WF_vars(send_to_client_send(w))
        /\ WF_vars(remove_client_remove(w))
        /\ WF_vars(remove_client_return(w))
        /\ SF_vars(send_to_client_get(w))
        /\ SF_vars(remove_client_lock(w))
        /\ SF_vars(new_client_insert(w))

SpecConcFair == SpecConc /\ FairnessConc

\* every environment and every terminal action
InitResolve ==
    /\ InitProc /\ InitReg /\ InitConc
    /\ ws = [calls |-> <<>>, ioctls |-> <<>>]
    /\ rt \in [env : [EnvNames -> EnvValues], action : TerminalActions, results : {<<>>}]

NextResolve == resolve_target

SpecResolve == InitResolve /\ [][NextResolve]_vars

NextWinsize ==
    \E fd \in Fds, cols \in U16Samples, rows \in U16Samples :
        set_terminal_size_using_fd(fd, cols, rows)

SpecWinsize == Init /\ [][NextWinsize]_vars

\* the scheduler runs every process that can take a step: the supervisor's steps and
\* the return of the server's blocking waitpid are not postponed for ever
Fairness ==
    /\ WF_vars(child_spawn)
    /\ WF_vars(child_tcsetpgrp)
    /\ WF_vars(hce_enter)
    /\ WF_vars(try_wait)
    /\ WF_vars(sleep)
    /\ WF_vars(check_pending)
    /\ WF_vars(send_sigterm)
    /\ WF_vars(send_sigkill)
    /\ WF_vars(process_exit)
    /\ WF_vars(kill_waitpid)

SpecFair == Spec /\ Fairness

----------------------------------------------------------------------------
(* Properties of the child supervisor and of kill / force_kill *)

\* the supervisor left its loop (by a break) and was not ended by a signal or a panic
LoopLeft == (sup = "exit" /\ supExit = "none") \/ supExit = "status0"

EscalationSchedule == <<SIGTERM, SIGTERM, SIGTERM, SIGKILL>>

\* C1: the signals the supervisor sends to the command are a prefix of SIGTERM, SIGTERM,
\* SIGTERM, SIGKILL, with exactly one exit check and one 10 ms sleep between every two
\* consecutive signals; and when the supervisor leaves its loop without having seen the
\* command exit, it has sent all four: exactly 3 SIGTERM and then exactly 1 SIGKILL.
C1_EscalationSchedule ==
    /\ Len(sigLog) <= Len(EscalationSchedule)
    /\ \A i \in 1..Len(sigLog) :
         /\ sigLog[i].sig = EscalationSchedule[i]
         /\ i > 1 => (sigLog[i].checks = 1 /\ sigLog[i].polls = 1)
    /\ (LoopLeft /\ cmd # "reaped") => (should_exit /\ Len(sigLog) = 4)

\* a command that ignored SIGTERM was sent the whole schedule and the supervisor exited
C1_Witness ==
    /\ cmdIgnoresTerm
    /\ sigReached
    /\ supExit = "status0"
    /\ cmd = "zombie"
    /\ Len(sigLog) = 4

\* C2 as stated: when the command exited on its own before any SIGINT / SIGTERM reached
\* the supervisor, the supervisor never enters Terminating (should_exit stays false) and
\* sends no signal to the command.
C2_NeverTerminating ==
    exitBeforeSig => (~should_exit /\ sigLog = <<>>)

\* C2 amended: when the command exited on its own before any SIGINT / SIGTERM reached the
\* supervisor, the supervisor sends no signal to the command, never goes below
\* Terminating(3) (attempts stays 3; should_exit is set only by a signal that arrived
\* after the exit), and it leaves its loop only by observing the exit.
C2_NoSignalAfterOwnExit ==
    exitBeforeSig =>
        /\ sigLog = <<>>
        /\ attempts = InitAttempts
        /\ should_exit => sigReached
        /\ LoopLeft => cmd = "reaped"

\* the command exited on its own with no signal delivered, and the supervisor is done
C2_Witness ==
    /\ exitBeforeSig
    /\ ~sigReached
    /\ supExit = "status0"
    /\ cmd = "reaped"

\* the complete schedule has been sent
FullEscalation ==
    /\ Len(sigLog) = 4
    /\ \A i \in 1..4 : sigLog[i].sig = EscalationSchedule[i]

C4_KillOfExitedReturns ==
    killAt \in {"zombie", "reaped"} =>
        \/ killRes \in {"Ok", "Err"}
        \/ (srv = "kill_wait" /\ sup = "zombie")

\* C9: every force_kill(pid) call passes exactly one SIGKILL to pid, returns Ok to a server
\* that goes on running (it does not wait), and never waits for the process: a process
\* that had exited stays as it was, an unreaped one stays unreaped.
C9_ForceKillBestEffort ==
    [][fkCalls' = fkCalls + 1 =>
         /\ srvSent' = Append(srvSent, SIGKILL)
         /\ fkRes' = "Ok"
         /\ srv' = "idle"
         /\ sup' # "reaped" <=> sup # "reaped"
         /\ sup \notin SupAlive => sup' = sup
         /\ sup \in SupAlive => sup' = "zombie"]_vars

\* force_kill was called on a process that had exited and been waited for, and returned Ok
C9_Witness ==
    /\ fkAt = "reaped"
    /\ fkRes = "Ok"
    /\ srv = "idle"

\* C10: kill never returns an error: its result is never Err, an Ok result means the
\* supervisor process was waited for, and a kill whose signal could not be delivered
\* (ESRCH) has panicked.
C10_KillNeverReturnsError ==
    /\ killRes # "Err"
    /\ killRes = "Ok" => (sup = "reaped" /\ srv = "idle")
    /\ killAt = "reaped" => (killRes = "panic" /\ srv = "panicked")

\* a kill whose signal could not be delivered has panicked
C10_Witness ==
    /\ killAt = "reaped"
    /\ killRes = "panic"
    /\ killCalls = 2

----------------------------------------------------------------------------
(* Properties of the client channel registry *)

\* the entries a handle's map holds under a client id
Entries(h, c) == {e \in Registry(h) : e.id = c}

\* C5: a send_to_client(c, m) call, through any handle, appends m to the messages of the
\* connection of the latest new_client(c, _) when no remove_client(c) came after it, and
\* changes the messages of no other connection; when c was never registered or was
\* removed since, the call returns and no connection's messages change.
C5_SendReachesRegisteredSender ==
    [][(ncalls' = ncalls + 1 /\ lastCall'.op = "send_to_client") =>
          LET c == lastCall'.client
              m == lastCall'.arg
          IN  IF regHist[c].op = "register"
              THEN delivered' = [delivered EXCEPT ![regHist[c].stream] = Append(@, m)]
              ELSE delivered' = delivered]_vars

\* new_client(c), send_to_client(c, m) delivered m; remove_client(c), send_to_client(c, m')
\* delivered nothing
C5_Witness ==
    /\ ncalls = 4
    /\ lastCall.op = "send_to_client"
    /\ regHist[lastCall.client].op = "unregister"
    /\ \E s \in Streams : Len(delivered[s]) = 1
    /\ \A s \in Streams : Len(delivered[s]) <= 1

\* C6: through every handle the map holds at most one sender per client id; an id has an
\* entry exactly when the latest new_client / remove_client call on it was new_client,
\* and the sender is the one over the connection of that call.
C6_OneSenderPerClient ==
    \A h \in DOMAIN handles : \A c \in Clients :
        /\ Cardinality(Entries(h, c)) <= 1
        /\ (Entries(h, c) # {}) <=> (regHist[c].op = "register")
        /\ \A e \in Entries(h, c) : e.sender = GetSender(regHist[c].stream)

\* a client id was registered twice in a row: the second connection replaced the first
C6_Witness ==
    /\ ncalls = 2
    /\ lastCall.op = "new_client"
    /\ \E c \in Clients :
         /\ regHist[c] = [op |-> "register", handle |-> lastCall.handle, stream |-> 2]
         /\ \A d \in Clients \ {c} : regHist[d].op = "none"
         /\ Entries(1, c) = {[id |-> c, sender |-> GetSender(2)]}

\* C7: a remove_client(c) call leaves no entry under c, leaves the entries of every other
\* id as they were, changes nothing at all when c had no entry (a second call, or a call
\* for an id never registered), and sends nothing.
C7_RemoveIdempotent ==
    [][\A h \in DOMAIN handles : \A c \in Clients :
          (/\ ncalls' = ncalls + 1
           /\ lastCall'.op = "remove_client"
           /\ lastCall'.handle = h
           /\ lastCall'.client = c) =>
              /\ Entries(h, c)' = {}
              /\ \A d \in Clients \ {c} : Entries(h, d)' = Entries(h, d)
              /\ Entries(h, c) = {} => arcs' = arcs
              /\ delivered' = delivered
              /\ handles' = handles]_vars

\* remove_client was called for an id that had no entry (any more) while another id
\* stays registered
C7_Witness ==
    /\ ncalls = 4
    /\ lastCall.op = "remove_client"
    /\ lastCall.arg = "absent"
    /\ regHist[lastCall.client].op = "unregister"
    /\ \E d \in Clients \ {lastCall.client} :
         /\ regHist[d] = [op |-> "register", handle |-> 1, stream |-> 2]
         /\ regHist[lastCall.client].handle = 1
         /\ Entries(1, d) # {}
    /\ \A s \in Streams : delivered[s] = <<>>

\* C8: all handles hold the same two Arc pointers, so they reach the same termios and the
\* same map: a client registered through any handle has its entry in the map of every
\* handle, and a client removed through any handle has no entry in the map of any handle.
C8_ClonesShareState ==
    /\ \A h1 \in DOMAIN handles : \A h2 \in DOMAIN handles :
         /\ handles[h1].client_senders = handles[h2].client_senders
         /\ handles[h1].orig_termios = handles[h2].orig_termios
    /\ \A h \in DOMAIN handles : \A c \in Clients :
         /\ regHist[c].op = "register" =>
              [id |-> c, sender |-> GetSender(regHist[c].stream)] \in Registry(h)
         /\ regHist[c].op = "unregister" => Entries(h, c) = {}

\* a client registered through one handle received a message sent through another handle
C8_Witness ==
    /\ Len(handles) >= 2
    /\ lastCall.op = "send_to_client"
    /\ regHist[lastCall.client].op = "register"
    /\ regHist[lastCall.client].handle # lastCall.handle
    /\ delivered[regHist[lastCall.client].stream] = <<lastCall.arg>>

----------------------------------------------------------------------------
(* Properties of spawn_terminal and of the new-line continuation *)

\* C11: spawn_terminal returns to a server that goes on running while the command is not
\* launched yet; the Pid it returns is the supervisor process's, which is not the server's
\* own process id and, once the command is launched, not the command's.
C11_HandleNamesSupervisor ==
    /\ [](retPid # 0 =>
            /\ retPid = supPid
            /\ retPid # ServerPid
            /\ cmdPid # 0 => retPid # cmdPid)
    /\ [][(retPid = 0 /\ retPid' # 0) =>
            (srv' = "idle" /\ sup' = "forked" /\ cmd' = "none" /\ cmdPid' = 0)]_vars

\* the command was launched after spawn_terminal had returned the supervisor's Pid
C11_Witness ==
    /\ retPid # 0
    /\ cmdPid # 0
    /\ cmd = "running"
    /\ srv = "idle"

----------------------------------------------------------------------------
(* Properties of the run-target resolution *)

IsSet(name) == rt.env[name] # Unset

\* C12: every result of resolving the action in the environment is: for OpenFile(F),
\* EDITOR's value if EDITOR is set, else VISUAL's value if VISUAL is set, with arguments
\* [F], and a panic if neither is set; for RunCommand(c), c unchanged; for no action,
\* SHELL's value with no arguments, and a panic if SHELL is unset; and all results of one
\* environment are equal.
C12_ResolutionBySetVariables ==
    \A i \in 1..Len(rt.results) :
        LET res == rt.results[i]
            a == rt.action
        IN  /\ res = rt.results[1]
            /\ a.kind = "OpenFile" =>
                 IF IsSet("EDITOR") THEN res = RunCommand(rt.env["EDITOR"], <<a.file>>)
                 ELSE IF IsSet("VISUAL") THEN res = RunCommand(rt.env["VISUAL"], <<a.file>>)
                 ELSE res.kind = "panic"
            /\ a.kind = "RunCommand" => res = RunCommand(a.cmd.command, a.cmd.args)
            /\ a.kind = "None" =>
                 IF IsSet("SHELL") THEN res = RunCommand(rt.env["SHELL"], <<>>)
                 ELSE res.kind = "panic"

\* the same statement with "set" read as "set to a value that is valid Unicode", and with
\* a panic for a file name that is not valid Unicode: this is what the code computes
C12_ResolutionByUnicodeVariables ==
    \A i \in 1..Len(rt.results) :
        LET res == rt.results[i]
            a == rt.action
            Usable(name) == rt.env[name] \notin {Unset, NotUnicode}
        IN  /\ res = rt.results[1]
            /\ a.kind = "OpenFile" =>
                 IF ~Usable("EDITOR") /\ ~Usable("VISUAL") THEN res.kind = "panic"
                 ELSE IF a.file = NotUnicode THEN res.kind = "panic"
                 ELSE IF Usable("EDITOR") THEN res = RunCommand(rt.env["EDITOR"], <<a.file>>)
                 ELSE res = RunCommand(rt.env["VISUAL"], <<a.file>>)
            /\ a.kind = "RunCommand" => res = RunCommand(a.cmd.command, a.cmd.args)
            /\ a.kind = "None" =>
                 IF Usable("SHELL") THEN res = RunCommand(rt.env["SHELL"], <<>>)
                 ELSE res.kind = "panic"

----------------------------------------------------------------------------
(* Properties of set_terminal_size_using_fd *)

\* C13: a set_terminal_size_using_fd(fd, cols, rows) call issues no ioctl when cols or
\* rows is zero, and exactly one ioctl, TIOCSWINSZ on fd with ws_col = cols and
\* ws_row = rows, when both are greater than zero.
C13_NoIoctlForZeroDimension ==
    [][Len(ws'.calls) = Len(ws.calls) + 1 =>
         LET call == ws'.calls[Len(ws'.calls)]
         IN  IF call.cols = 0 \/ call.rows = 0
             THEN ws'.ioctls = ws.ioctls
             ELSE /\ Len(ws'.ioctls) = Len(ws.ioctls) + 1
                  /\ SubSeq(ws'.ioctls, 1, Len(ws.ioctls)) = ws.ioctls
                  /\ LET io == ws'.ioctls[Len(ws'.ioctls)]
                     IN  /\ io.fd = call.fd
                         /\ io.request = "TIOCSWINSZ"
                         /\ io.winsize.ws_col = call.cols
                         /\ io.winsize.ws_row = call.rows]_vars

\* a call with zero columns issued nothing, then a call with both dimensions positive
\* issued one ioctl
C13_Witness ==
    /\ Len(ws.calls) = 2
    /\ ws.calls[1].cols = 0
    /\ ws.calls[1].rows > 0
    /\ ws.calls[2].cols = U16Max
    /\ ws.calls[2].rows = 1
    /\ Len(ws.ioctls) = 1

----------------------------------------------------------------------------
(* Further properties of the child supervisor *)

SentCount(sig) == Cardinality({i \in 1..Len(sigLog) : sigLog[i].sig = sig})

\* C14: the supervisor sends the command at most 3 SIGTERM and at most 1 SIGKILL, the
\* SIGKILL only after 3 SIGTERM and as the last signal; and a SIGINT / SIGTERM that reaches
\* the supervisor when should_exit is already true changes neither should_exit, nor
\* attempts, nor the supervisor's position, nor what was sent.
C14_LaterSignalsNoEffect ==
    /\ [](/\ SentCount(SIGTERM) <= 3
          /\ SentCount(SIGKILL) <= 1
          /\ \A i \in 1..Len(sigLog) :
               sigLog[i].sig = SIGKILL =>
                   (i = Len(sigLog) /\ i = 4 /\ \A j \in 1..3 : sigLog[j].sig = SIGTERM))
    /\ [][(should_exit /\ sup \in InLoop /\ pending' # pending) =>
            /\ should_exit' = should_exit
            /\ attempts' = attempts
            /\ sup' = sup
            /\ sigLog' = sigLog
            /\ cmd' = cmd]_vars

\* a signal reached the supervisor during the escalation (it is still unread) and the
\* schedule ended as 3 SIGTERM and 1 SIGKILL
C14_Witness ==
    /\ should_exit
    /\ pending # {}
    /\ SentCount(SIGTERM) = 3
    /\ SentCount(SIGKILL) = 1
    /\ supExit = "status0"

\* C15: once try_wait has reported the command's exit the supervisor sends nothing more;
\* the step that observes the exit leaves the loop at once, whatever should_exit and
\* attempts are; and every signal is sent after an exit check of the same iteration that
\* found the command running.
C15_NoSignalAfterObservedExit ==
    /\ [][cmd = "reaped" => sigLog' = sigLog]_vars
    /\ [][(cmd # "reaped" /\ cmd' = "reaped") =>
            (sup = "try_wait" /\ sup' = "exit" /\ sigLog' = sigLog)]_vars
    /\ [][sigLog' # sigLog => (checks >= 1 /\ polls >= 1 /\ cmd # "reaped")]_vars
    /\ [](cmd = "reaped" => sup \notin InLoop)

\* the command exited after the third SIGTERM: the exit was observed in Terminating(0)
\* and no SIGKILL was sent
C15_Witness ==
    /\ cmd = "reaped"
    /\ should_exit
    /\ attempts = 0
    /\ Len(sigLog) = 3
    /\ supExit = "status0"

Supervised == sup \in InLoop \cup {"exit"} \/ supExit = "status0"

\* C17: in the forked continuation the command is launched first, in a process group of
\* its own; then that group is made the terminal's foreground group; only then the
\* supervisor's loop runs; exit(0) comes only after the loop. A failed launch or a failed
\* tcsetpgrp ends the continuation before the loop was entered (nothing was supervised,
\* nothing sent), and that step changes nothing of the server.
C17_ContinuationOrder ==
    /\ [](Supervised => /\ cmd # "none"
                        /\ cmdPid # 0
                        /\ cmdPgid = cmdPid
                        /\ cmdPgid \notin {ServerPid, supPid}
                        /\ fgPgrp = cmdPgid)
    /\ [](fgPgrp # 0 => (cmdPid # 0 /\ fgPgrp = cmdPid))
    /\ [][(sup' = "spawned" /\ sup # "spawned") =>
            (sup = "forked" /\ cmd = "none" /\ cmd' = "running" /\ fgPgrp' = 0)]_vars
    /\ [][(sup' = "pgrp_set" /\ sup # "pgrp_set") => sup = "spawned"]_vars
    /\ [][(sup' \in InLoop /\ sup \notin InLoop) => sup = "pgrp_set"]_vars
    /\ [][(sup' = "exit" /\ sup # "exit") => sup \in InLoop]_vars
    /\ [][(supExit' = "status0" /\ supExit # "status0") => sup = "exit"]_vars
    /\ [][(supExit' = "panic" /\ supExit # "panic") =>
            /\ sup \in {"forked", "spawned"}
            /\ sup' = "zombie"
            /\ UNCHANGED <<srv, killCalls, killRes, fkCalls, fkRes, srvSent, retPid>>]_vars
    /\ [](supExit = "panic" => /\ ~Supervised
                               /\ ~should_exit
                               /\ sigLog = <<>>
                               /\ checks = 0)

\* the continuation went through all four steps: the command in its own group, that group
\* in the foreground, the loop run to the command's exit, exit(0)
C17_Witness ==
    /\ supExit = "status0"
    /\ cmd = "reaped"
    /\ cmdPgid = cmdPid
    /\ fgPgrp = cmdPid
    /\ cmdPid \notin {0, supPid}

\* tcsetpgrp failed after the launch; the server then killed the pid and got Ok
C17_WitnessAbort ==
    /\ supExit = "panic"
    /\ cmd = "running"
    /\ fgPgrp = 0
    /\ srv = "idle"
    /\ killRes = "Ok"

----------------------------------------------------------------------------
(* Frame of the registry operations *)

\* C18: a send_to_client call, to a registered id or not, leaves every map and every
\* handle as it was (the same ids, the same sender under each); a map changes only in a
\* new_client or remove_client call; a send to an id without an entry returns and no
\* connection receives anything.
C18_SendLeavesRegistry ==
    /\ [][(ncalls' # ncalls /\ lastCall'.op = "send_to_client") =>
            /\ arcs' = arcs
            /\ handles' = handles
            /\ \A h \in DOMAIN handles : \A c \in Clients : Entries(h, c)' = Entries(h, c)]_vars
    /\ [][arcs' # arcs =>
            (ncalls' # ncalls /\ lastCall'.op \in {"new_client", "remove_client"})]_vars
    /\ [][\A h \in DOMAIN handles : \A c \in Clients :
            (/\ ncalls' # ncalls
             /\ lastCall'.op = "send_to_client"
             /\ lastCall'.handle = h
             /\ lastCall'.client = c
             /\ Entries(h, c) = {}) => delivered' = delivered]_vars

\* the last call was a send to an id that never had an entry, through a clone, while the
\* other id is registered and has received a message: its entry is still there
C18_Witness ==
    /\ lastCall.op = "send_to_client"
    /\ lastCall.handle = 2
    /\ regHist[lastCall.client].op = "none"
    /\ \E c \in Clients \ {lastCall.client} :
          /\ regHist[c].op = "register"
          /\ Entries(1, c) = {[id |-> c, sender |-> GetSender(regHist[c].stream)]}
          /\ Len(delivered[regHist[c].stream]) = 1

----------------------------------------------------------------------------
(* Concurrent registry calls *)

\* C19: registry calls of different workers, through clones, are atomic with respect to
\* each other. Every delivery is made by a worker that is in send_to_client and holds the
\* lock, to the sender the map holds at that moment under the call's id, and it delivers
\* the call's message; nothing is delivered on a connection after the remove_client that
\* took its sender out has returned; the lock is held by exactly the workers between
\* their lock() and the drop of the guard, so by at most one; and no call is stuck: a
\* worker inside a call can step, or the worker that holds the lock can.
C19_RegistryCallsAtomic ==
    /\ [][delivered' # delivered =>
            \E w \in Workers :
               /\ thr[w].op = "send_to_client"
               /\ thr[w].pc = "send"
               /\ lock = w
               /\ \E e \in Entries(thr[w].handle, thr[w].client) :
                     delivered' = SenderSend(delivered, e.sender, thr[w].msg)]_vars
    /\ [][\A s \in unregDone : delivered'[s] = delivered[s]]_vars
    /\ [](\A w \in Workers : (thr[w].pc \in HoldsGuard) <=> (lock = w))
    /\ [](\A w \in Workers :
             thr[w].pc # "idle" =>
                 \/ ENABLED WorkerStep(w)
                 \/ (lock \in Workers \ {w} /\ ENABLED WorkerStep(lock)))

\* under fair scheduling every registry call returns
C19_EveryCallReturns ==
    \A w \in Workers : (thr[w].pc # "idle") ~> (thr[w].pc = "idle")

\* a race of the claim: one worker is blocked in send_to_client's lock() for an id while
\* another, through another clone, holds the lock in remove_client of the same id and has
\* taken out the id's sender
C19_Witness ==
    \E a \in Workers, b \in Workers :
        /\ thr[a].op = "send_to_client"
        /\ thr[a].pc = "lock"
        /\ thr[b].op = "remove_client"
        /\ thr[b].pc = "return"
        /\ thr[b].client = thr[a].client
        /\ thr[b].handle # thr[a].handle
        /\ lock = b
        /\ thr[b].found # {}

----------------------------------------------------------------------------
(* kill(pid) against the continuation of the spawn that returned pid *)

\* the command is not running, or the supervisor has sent it a signal
CmdSettled == cmd \in {"none", "zombie", "reaped"} \/ sigLog # <<>>

\* C20: when a kill(pid) that reached a live continuation (before or after the
\* supervisor's handlers were installed) has returned, and no force_kill was called, the
\* command has exited, was never launched, or was sent SIGTERM or SIGKILL by the
\* supervisor.
C20_KillLeavesNoOrphan ==
    (killRes = "Ok" /\ killAt \in {"early", "loop"} /\ fkCalls = 0) => CmdSettled

\* the same for a kill(pid) that reached the supervisor in its loop
C20_KillInLoopSettles ==
    (killRes = "Ok" /\ killAt = "loop" /\ fkCalls = 0) => CmdSettled

====
